---- MODULE Spec2Model ----
(***************************************************************************)
(* Model of src/src/proof.rs: the hash-consed proof tree (ProofTree), the  *)
(* deduplicating array of proof trees (ProofTreeArray) with its builder    *)
(* operation and text rendering, and the driver ProofTreeArray::new that   *)
(* hands a fresh array to the external verifier (verify_one).              *)
(*                                                                         *)
(* Arc<ProofTree> handles are modelled as indices into `heap`, the list of *)
(* all Arc allocations made so far: two handles are the same instance iff  *)
(* they are the same index.  Positions in the array are 0-based as in the  *)
(* source; TLA+ sequences are 1-based, so trees[p + 1] is self.trees[p].   *)
(***************************************************************************)
EXTENDS Integers, Sequences, FiniteSets, TLC

\* ------------------------------------------------------------------ bounds

\* Largest size of what the verifier builds, over all runs: each build call
\* counts one plus the number of children it is given.
MaxWork == 5
\* Largest number of driver calls (ProofTreeArray::new).
MaxRuns == 2
\* Largest length of a rendering source in the rendering specification.
MaxLen == 3
\* Largest number of (childless) build calls in the rendering specification.
MaxRenderCalls == 1
\* Largest number of build calls of the first run in the specification of
\* repeated runs.
MaxTwinCalls == 2

\* How many children a proof step takes.
ChildCounts == {0, 1, 2}
\* Statement addresses (opaque, equatable tokens).
Addrs == {1, 2}
\* Diagnostics the verifier can fail with.
Diagnostics == {"d1", "d2"}
\* Rendering sources of the array specification: the empty source and
\* [a, b|0x80, c|0x80].
Exprs == {<<>>, <<97, 226, 227>>}
\* Bytes of the rendering specification: 'a', 'b'|0x80, 'c'|0x80, ' '|0x80.
RenderBytes == {97, 226, 227, 160}

VARIABLES
    heap,       \* all Arc<ProofTree> allocations: [address, children, hash]
    sip,        \* the hash function, as far as it has been evaluated
    map,        \* arr.map: digest -> position
    trees,      \* arr.trees: handles
    exprs,      \* arr.exprs: byte sequences
    pc,         \* "idle" | "verify" | "done": where the driver is
    result,     \* what the driver returned
    engineRet,  \* what verify_one returned
    qedLookup,  \* the driver's own index() calls in this run (line 83)
    calls,      \* history: the build calls of this run, [addr, children, ret]
    last,       \* history: the latest build call of this run
    srcs,       \* history: the rendering source each stored entry came from
    work,       \* history: size of the build calls made, over all runs
    runs,       \* history: driver calls so far
    twin        \* history (repeated runs): this run's build calls in order,
                \* what they returned, and the run before it

vars == <<heap, sip, map, trees, exprs, pc, result, engineRet, qedLookup,
          calls, last, srcs, work, runs, twin>>

\* ----------------------------------------------------------------- helpers

\* Option<T> as a set with at most one element.
None == {}
Some(x) == {x}
Unwrap(o) == CHOOSE x \in o : TRUE

Handles == 1..Len(heap)

SeqsOfLen(S, lens) == UNION {[1..k -> S] : k \in lens}

\* ---------------------------------------------------------------- ProofTree

\* impl PartialEq for ProofTree: address and children, element-wise and deep;
\* the cached hash is not compared.
RECURSIVE TreeEq(_, _)
TreeEq(a, b) ==
    /\ a.address = b.address
    /\ Len(a.children) = Len(b.children)
    /\ \A i \in 1..Len(a.children) :
          TreeEq(heap[a.children[i]], heap[b.children[i]])

\* What ProofTree::new feeds the hasher: the address, then the Vec (its
\* length and, for each child, that child's cached hash -- impl Hash for
\* ProofTree writes only self.hash).
HashInput(address, children) ==
    <<address, [i \in 1..Len(children) |-> heap[children[i]].hash]>>

\* The digests the hasher has produced so far.  Digests are u64 values that
\* the program only compares for equality, so they are named 0, 1, ... in
\* the order of their first appearance.
DigestsSeen == {sip[i] : i \in DOMAIN sip}

\* A hasher seeded anew at every construction: the digest of an input met
\* before need not be the digest it gave then.
SipFinishAny(input) == DigestsSeen \cup {Cardinality(DigestsSeen)}

\* hasher.finish(): a deterministic function of what was fed.  An input met
\* before gives the digest it gave then; a new input gives either a digest
\* that another input gave before (a collision) or a new one.
SipFinish(input) ==
    IF input \in DOMAIN sip THEN {sip[input]}
    ELSE DigestsSeen \cup {Cardinality(DigestsSeen)}

\* ProofTree::new, given the digest the hasher produced.
ProofTreeNew(address, children, h) ==
    [address |-> address, children |-> children, hash |-> h]

\* ----------------------------------------------------------- ProofTreeArray

\* ProofTreeArray::default().
DefaultArr == [map |-> <<>>, trees |-> <<>>, exprs |-> <<>>]

\* A pop that removes nothing.
PopNothing(v) == v

\* A lookup that never finds anything.
IndexInMiss(arr, tree) == None

\* A lookup that also compares the stored tree with the candidate.
IndexInDeep(arr, tree) ==
    IF /\ tree.hash \in DOMAIN arr.map
       /\ TreeEq(heap[arr.trees[arr.map[tree.hash] + 1]], tree)
    THEN Some(arr.map[tree.hash]) ELSE None

\* ProofTreeArray::index on an array value.
IndexIn(arr, tree) ==
    IF tree.hash \in DOMAIN arr.map THEN Some(arr.map[tree.hash]) ELSE None

\* ProofTreeArray::index on the array under construction.
Index(tree) == IndexIn([map |-> map, trees |-> trees, exprs |-> exprs], tree)

\* An insert that records position 0 whatever the position given.
MapInsertZero(m, k, v) == (k :> 0) @@ m

\* HashMap::insert: the new value replaces an old one under the same key.
MapInsert(m, k, v) == (k :> v) @@ m

\* A push at the front.
PushFront(v, x) == <<x>> \o v

\* Vec::push.
Push(v, x) == Append(v, x)

\* chr & 0x80 and chr & 0x7F on a u8.
And80(chr) == ((chr \div 128) % 2) * 128
And7F(chr) == chr % 128

\* A loop body that forgets the separator after a token's final byte.
PushChrNoSep(uexpr, chr) == Append(uexpr, And7F(chr))

\* One iteration of the loop over expr (lines 100-107).
PushChr(uexpr, chr) ==
    IF And80(chr) = 0
    THEN Append(uexpr, chr)
    ELSE Append(Append(uexpr, And7F(chr)), 32)

\* The whole loop: uexpr after every byte of expr was consumed.
RECURSIVE PushAll(_, _)
PushAll(uexpr, expr) ==
    IF expr = <<>> THEN uexpr
    ELSE PushAll(PushChr(uexpr, Head(expr)), Tail(expr))

\* Vec::pop, result dropped: removes the last element if there is one.
Pop(v) == IF v = <<>> THEN v ELSE SubSeq(v, 1, Len(v) - 1)

\* The rendering stored for a rendering source (lines 99-109).
Render(expr) == Pop(PushAll(<<32>>, expr))

\* A build that, on a dedup hit, stores the rendering of the new source over
\* the one the stored tree was inserted with.
BuildOverwrite(addr, children, expr) ==
    \E h \in SipFinish(HashInput(addr, children)) :
        LET tree == ProofTreeNew(addr, children, h)
            found == Index(tree)
            input == HashInput(addr, children)
        IN  /\ sip' = IF input \in DOMAIN sip THEN sip ELSE (input :> h) @@ sip
            /\ IF found # None
               THEN /\ last' = [addr |-> addr, children |-> children,
                               expr |-> expr,
                               ret |-> trees[Unwrap(found) + 1],
                               grew |-> FALSE]
                    /\ exprs' = [exprs EXCEPT ![Unwrap(found) + 1] =
                                                Render(expr)]
                    /\ UNCHANGED <<heap, map, trees, srcs>>
               ELSE /\ map' = MapInsert(map, tree.hash, Len(trees))
                    /\ heap' = Append(heap, tree)
                    /\ trees' = Push(trees, Len(heap) + 1)
                    /\ exprs' = Push(exprs, Render(expr))
                    /\ srcs' = Append(srcs, expr)
                    /\ last' = [addr |-> addr, children |-> children,
                               expr |-> expr, ret |-> Len(heap) + 1,
                               grew |-> TRUE]
            /\ calls' = calls \cup {[addr |-> last'.addr,
                                      children |-> last'.children,
                                      ret |-> last'.ret]}
            /\ work' = work + 1 + Len(children)
            /\ UNCHANGED <<pc, result, engineRet, qedLookup, runs>>

\* ProofBuilder::build, called by the verifier with a statement address, the
\* handles of the children and the rendering source.
Build(addr, children, expr) ==
    \E h \in SipFinish(HashInput(addr, children)) :
        LET tree == ProofTreeNew(addr, children, h)
            found == Index(tree)
            input == HashInput(addr, children)
        IN  /\ sip' = IF input \in DOMAIN sip THEN sip ELSE (input :> h) @@ sip
            /\ IF found # None
               THEN /\ last' = [addr |-> addr, children |-> children,
                               expr |-> expr,
                               ret |-> trees[Unwrap(found) + 1],
                               grew |-> FALSE]
                    /\ UNCHANGED <<heap, map, trees, exprs, srcs>>
               ELSE /\ map' = MapInsert(map, tree.hash, Len(trees))
                    /\ heap' = Append(heap, tree)
                    /\ trees' = Push(trees, Len(heap) + 1)
                    /\ exprs' = Push(exprs, Render(expr))
                    /\ srcs' = Append(srcs, expr)
                    /\ last' = [addr |-> addr, children |-> children,
                               expr |-> expr, ret |-> Len(heap) + 1,
                               grew |-> TRUE]
            /\ calls' = calls \cup {[addr |-> last'.addr,
                                      children |-> last'.children,
                                      ret |-> last'.ret]}
            /\ work' = work + 1 + Len(children)
            /\ UNCHANGED <<pc, result, engineRet, qedLookup, runs>>

\* ------------------------------------------------------------------ driver

NoCall == [addr |-> 0, children |-> <<>>, expr |-> <<>>, ret |-> 0,
           grew |-> FALSE]

NoResult == [kind |-> "none", ok |-> None, err |-> None]

NoTwin == [script |-> <<>>, rets |-> <<>>, choice |-> 0, prev |-> None]

\* ProofTreeArray::new up to the call of verify_one: a fresh default array.
New ==
    /\ pc \in {"idle", "done"}
    /\ runs < MaxRuns
    /\ map' = DefaultArr.map
    /\ trees' = DefaultArr.trees
    /\ exprs' = DefaultArr.exprs
    /\ pc' = "verify"
    /\ result' = NoResult
    /\ engineRet' = NoResult
    /\ qedLookup' = 0
    /\ calls' = {}
    /\ last' = NoCall
    /\ srcs' = <<>>
    /\ runs' = runs + 1
    /\ UNCHANGED <<heap, sip, work>>

\* A driver that returns the position after the one it found.
DriverOkNext(arc) ==
    LET arr == [map |-> map, trees |-> trees, exprs |-> exprs]
        qed == IndexIn(arr, heap[arc])
    IN  IF qed = None
        THEN [kind |-> "panic", ok |-> None, err |-> None]
        ELSE [kind |-> "ok", ok |-> Some(<<arr, Unwrap(qed) + 1>>),
              err |-> None]

\* A driver that reports a lookup miss as an error value.
DriverOkMissErr(arc) ==
    LET arr == [map |-> map, trees |-> trees, exprs |-> exprs]
        qed == IndexIn(arr, heap[arc])
    IN  IF qed = None
        THEN [kind |-> "err", ok |-> None, err |-> Some("d1")]
        ELSE [kind |-> "ok", ok |-> Some(<<arr, Unwrap(qed)>>), err |-> None]

\* What the driver does with Ok(arc) from verify_one (lines 83-84).
DriverOk(arc) ==
    LET arr == [map |-> map, trees |-> trees, exprs |-> exprs]
        qed == IndexIn(arr, heap[arc])
    IN  IF qed = None
        THEN [kind |-> "panic", ok |-> None, err |-> None]
        ELSE [kind |-> "ok", ok |-> Some(<<arr, Unwrap(qed)>>), err |-> None]

\* A driver that replaces the diagnostic by one of its own.
DriverErrOwn(diag) == [kind |-> "err", ok |-> None, err |-> Some("d1")]

\* What the driver does with Err(diag) from verify_one (try!, line 82).
DriverErr(diag) == [kind |-> "err", ok |-> None, err |-> Some(diag)]

\* verify_one returns Ok(arc); arc is any proof tree the verifier holds.
VerifyOk ==
    /\ pc = "verify"
    /\ \E arc \in Handles :
          /\ engineRet' = [kind |-> "ok", ok |-> Some(arc), err |-> None]
          /\ result' = DriverOk(arc)
    /\ qedLookup' = qedLookup + 1
    /\ pc' = "done"
    /\ UNCHANGED <<heap, sip, map, trees, exprs, calls, last, srcs,
                   work, runs>>

\* verify_one returns Err(diag).
VerifyErr ==
    /\ pc = "verify"
    /\ \E diag \in Diagnostics :
          /\ engineRet' = [kind |-> "err", ok |-> None, err |-> Some(diag)]
          /\ result' = DriverErr(diag)
    /\ pc' = "done"
    /\ UNCHANGED <<heap, sip, map, trees, exprs, qedLookup, calls, last,
                   srcs, work, runs>>

\* The verifier records one proof step.
VerifyBuild ==
    /\ pc = "verify"
    /\ \E addr \in Addrs, children \in SeqsOfLen(Handles, ChildCounts),
          expr \in Exprs :
          /\ work + 1 + Len(children) <= MaxWork
          /\ Build(addr, children, expr)

\* The verifier records a childless step with any rendering source.
VerifyBuildRender ==
    /\ pc = "verify"
    /\ work < MaxRenderCalls
    /\ \E expr \in SeqsOfLen(RenderBytes, 0..MaxLen) : Build(1, <<>>, expr)

Init ==
    /\ heap = <<>>
    /\ sip = <<>>
    /\ map = DefaultArr.map
    /\ trees = DefaultArr.trees
    /\ exprs = DefaultArr.exprs
    /\ pc = "idle"
    /\ result = NoResult
    /\ engineRet = NoResult
    /\ qedLookup = 0
    /\ calls = {}
    /\ last = NoCall
    /\ srcs = <<>>
    /\ work = 0
    /\ runs = 0
    /\ twin = NoTwin

Next ==
    \/ New /\ UNCHANGED twin
    \/ VerifyBuild /\ UNCHANGED twin
    \/ VerifyOk /\ UNCHANGED twin
    \/ VerifyErr /\ UNCHANGED twin

Spec == Init /\ [][Next]_vars

NextRender ==
    \/ New /\ UNCHANGED twin
    \/ VerifyBuildRender /\ UNCHANGED twin
    \/ VerifyOk /\ UNCHANGED twin
    \/ VerifyErr /\ UNCHANGED twin

SpecRender == Init /\ [][NextRender]_vars

\* ----------------------------------------------------------- repeated runs
\* The driver called again and again on the same statement: the verifier
\* is free in the first run and makes, in every later run, the build calls
\* of the run before, in the same order, with the same addresses, the same
\* rendering sources and children at the same positions of the array.

\* The script of the run before, if there was one.
PrevScript == IF twin.prev = None THEN <<>> ELSE Unwrap(twin.prev).script

\* ProofTreeArray::new once more; the finished run is kept for comparison.
TwinNew ==
    /\ New
    /\ twin' = [script |-> <<>>, rets |-> <<>>, choice |-> 0,
                prev |-> IF runs = 0 THEN None
                         ELSE Some([script |-> twin.script,
                                    choice |-> twin.choice,
                                    arr |-> [map |-> map, trees |-> trees,
                                             exprs |-> exprs],
                                    result |-> result])]

\* One build call with children given by their positions in the array.
TwinCall(addr, kids, expr) ==
    /\ Build(addr, [i \in 1..Len(kids) |-> trees[kids[i] + 1]], expr)
    /\ twin' = [twin EXCEPT
                  !.script = Append(@, [addr |-> addr, kids |-> kids,
                                        expr |-> expr]),
                  !.rets = Append(@, last'.ret)]

\* The verifier records one proof step: any step in the first run, the next
\* step of the script of the run before in a later run.
TwinBuild ==
    /\ pc = "verify"
    /\ \/ /\ twin.prev = None
          /\ Len(twin.script) < MaxTwinCalls
          /\ \E addr \in Addrs,
                kids \in SeqsOfLen(0..(Len(trees) - 1), ChildCounts),
                expr \in Exprs :
                TwinCall(addr, kids, expr)
       \/ /\ twin.prev # None
          /\ Len(twin.script) < Len(PrevScript)
          /\ LET c == PrevScript[Len(twin.script) + 1]
             IN  /\ \A i \in 1..Len(c.kids) : c.kids[i] < Len(trees)
                 /\ TwinCall(c.addr, c.kids, c.expr)

\* verify_one returns Ok with the tree that one of its build calls returned.
TwinOk ==
    /\ pc = "verify"
    /\ \E k \in 1..Len(twin.script) :
          /\ engineRet' = [kind |-> "ok", ok |-> Some(twin.rets[k]),
                           err |-> None]
          /\ result' = DriverOk(twin.rets[k])
          /\ twin' = [twin EXCEPT !.choice = k]
    /\ qedLookup' = qedLookup + 1
    /\ pc' = "done"
    /\ UNCHANGED <<heap, sip, map, trees, exprs, calls, last, srcs,
                   work, runs>>

\* verify_one returns Err(diag).
TwinErr == VerifyErr /\ UNCHANGED twin

NextTwin == TwinNew \/ TwinBuild \/ TwinOk \/ TwinErr

SpecTwin == Init /\ [][NextTwin]_vars

\* ------------------------------------------------------------------ claims

\* The step is a build call.
IsBuildStep == work' > work

\* Two build calls were given structurally equal (statement, children).
SameArgs(r, c) ==
    /\ r.addr = c.addr
    /\ Len(r.children) = Len(c.children)
    /\ \A i \in 1..Len(r.children) :
          TreeEq(heap[r.children[i]], heap[c.children[i]])

\* The position at which a handle is stored in the array under construction.
PosOf(h) == CHOOSE p \in 1..Len(trees) : trees[p] = h

\* The array under construction, as a value.
Arr == [map |-> map, trees |-> trees, exprs |-> exprs]

\* C1 (dedup identity): a build call whose (statement, children) are those
\* of any earlier build call on the same array returns the handle that the
\* earlier call returned, whatever the two rendering sources and whatever
\* was built in between, and leaves the lengths of trees and exprs as they
\* were.
C1_DedupIdentity ==
    [][IsBuildStep =>
         \A r \in calls :
            SameArgs(r, last') =>
               /\ last'.ret = r.ret
               /\ Len(trees') = Len(trees)
               /\ Len(exprs') = Len(exprs)]_vars

\* C1 witness: the latest call repeated the (statement, children) of the
\* stored node it returned, with a rendering source other than the one that
\* node was inserted with, after a different call was made on this array.
C1_Witness ==
    /\ last.ret \in Handles
    /\ ~last.grew
    /\ SameArgs([addr |-> heap[last.ret].address,
                 children |-> heap[last.ret].children], last)
    /\ last.expr # srcs[PosOf(last.ret)]
    /\ \E r \in calls : ~SameArgs(r, last)

\* C2 (distinctness), as claimed: two build calls with structurally
\* different (statement, children) return nodes at different positions, and
\* the array holds one entry per structurally distinct pair built.
C2_Distinctness ==
    /\ \A r1, r2 \in calls :
          ~SameArgs(r1, r2) => Index(heap[r1.ret]) # Index(heap[r2.ret])
    /\ Len(trees) = Cardinality({{q \in calls : SameArgs(r, q)} : r \in calls})

\* C3 (lookup consistency): in every state, for the node returned by any
\* build call made on this array so far, index finds a position within the
\* array, and the tree stored there is structurally equal to that node.
C3_LookupConsistency ==
    \A r \in calls :
        LET found == Index(heap[r.ret])
        IN  /\ found # None
            /\ Unwrap(found) \in 0..(Len(trees) - 1)
            /\ TreeEq(heap[trees[Unwrap(found) + 1]], heap[r.ret])

\* C3 witness: the latest call was a dedup hit on the first of at least two
\* stored nodes, and a lookup of the node it returned finds position 0.
C3_Witness ==
    /\ Len(trees) >= 2
    /\ ~last.grew
    /\ last.ret = trees[1]
    /\ Index(heap[last.ret]) = Some(0)

\* C4 (table invariant): trees and exprs have the same length; the keys of
\* map are exactly the digests of the stored trees; each key d is mapped to
\* a valid position whose tree has digest d; no two stored trees share a
\* digest.
C4_TableInvariant ==
    /\ Len(trees) = Len(exprs)
    /\ DOMAIN map = {heap[trees[p]].hash : p \in 1..Len(trees)}
    /\ \A d \in DOMAIN map :
          /\ map[d] \in 0..(Len(trees) - 1)
          /\ heap[trees[map[d] + 1]].hash = d
    /\ \A p, q \in 1..Len(trees) :
          heap[trees[p]].hash = heap[trees[q]].hash => p = q

\* C4 witness: an array of two trees with two map entries, the latest call
\* having been a dedup hit.
C4_Witness ==
    /\ Len(trees) = 2
    /\ Cardinality(DOMAIN map) = 2
    /\ ~last.grew
    /\ last.ret \in Handles

\* C5 (append-only): a build call either leaves map, trees and exprs as
\* they were, or appends one tree and one rendering at the position that was
\* the length of the array and adds the one map entry for that tree's digest
\* and that position; within a run no step shortens trees or exprs, changes
\* a stored handle, the tree behind it, a stored rendering or a map entry.
C5_AppendOnly ==
    [][/\ IsBuildStep =>
            \/ /\ map' = map
               /\ trees' = trees
               /\ exprs' = exprs
            \/ /\ Len(trees') = Len(trees) + 1
               /\ Len(exprs') = Len(exprs) + 1
               /\ DOMAIN map' = DOMAIN map \cup {heap'[trees'[Len(trees')]].hash}
               /\ heap'[trees'[Len(trees')]].hash \notin DOMAIN map
               /\ map'[heap'[trees'[Len(trees')]].hash] = Len(trees)
       /\ runs' = runs =>
            /\ Len(trees') >= Len(trees)
            /\ Len(exprs') >= Len(exprs)
            /\ \A p \in 1..Len(trees) :
                  /\ trees'[p] = trees[p]
                  /\ heap'[trees'[p]] = heap[trees[p]]
            /\ \A p \in 1..Len(exprs) : exprs'[p] = exprs[p]
            /\ \A d \in DOMAIN map : d \in DOMAIN map' /\ map'[d] = map[d]]_vars

\* C5 witness: the latest call appended a third tree to the array.
C5_Witness ==
    /\ Len(trees) = 3
    /\ last.grew
    /\ last.ret = trees[3]
    /\ map[heap[trees[3]].hash] = 2

\* The handles returned by the build calls made on this array.
Built == {r.ret : r \in calls}

\* C6 (driver success): once the driver has returned after verify_one
\* returned Ok with a node that a build call on this run's array returned,
\* the driver's result is Ok (its lookup did not miss), the array in it is
\* the array as the build calls left it, and the tree at the qed position
\* is the very handle verify_one returned.
C6_DriverSuccess ==
    (pc = "done" /\ engineRet.kind = "ok" /\ engineRet.ok \subseteq Built) =>
        /\ result.kind = "ok"
        /\ result.ok # None
        /\ result.err = None
        /\ \A t \in result.ok :
              /\ t[1] = Arr
              /\ t[2] \in 0..(Len(t[1].trees) - 1)
              /\ t[1].trees[t[2] + 1] = Unwrap(engineRet.ok)

\* C6 witness: the driver returned Ok with qed position 0 of an array of at
\* least two trees, in a run that started with trees of an earlier run
\* still allocated.
C6_Witness ==
    /\ pc = "done"
    /\ engineRet.kind = "ok"
    /\ engineRet.ok \subseteq Built
    /\ Len(trees) >= 2
    /\ Len(heap) > Len(trees)
    /\ result.ok = {<<Arr, 0>>}

\* The transform as the claim words it, from the last byte backwards: the
\* bytes copied for a source, before the leading space is put in front.
RECURSIVE RefCopy(_)
RefCopy(src) ==
    IF Len(src) = 0 THEN <<>>
    ELSE LET b == src[Len(src)]
         IN  RefCopy(SubSeq(src, 1, Len(src) - 1))
                \o (IF b < 128 THEN <<b>> ELSE <<b - 128, 32>>)

RefRender(src) ==
    LET out == <<32>> \o RefCopy(src) IN SubSeq(out, 1, Len(out) - 1)

\* C7 (rendering transform): every stored rendering equals the reference
\* result for the source it was built from; [a, b|0x80, c|0x80] is stored
\* as " ab c" and the empty source as the empty sequence.
C7_RenderingTransform ==
    \A p \in 1..Len(exprs) :
        /\ exprs[p] = RefRender(srcs[p])
        /\ srcs[p] = <<97, 226, 227>> => exprs[p] = <<32, 97, 98, 32, 99>>
        /\ srcs[p] = <<>> => exprs[p] = <<>>

\* C7 witness: a build call stored the rendering of [a, b|0x80, c|0x80].
C7_Witness ==
    \E p \in 1..Len(exprs) :
        /\ srcs[p] = <<97, 226, 227>>
        /\ exprs[p] = <<32, 97, 98, 32, 99>>
        /\ last.grew

\* The byte that uexpr.pop() removes for a source.
Popped(src) == LET u == PushAll(<<32>>, src) IN u[Len(u)]

\* The rendering has one leading space, no trailing space and no two
\* spaces in a row.
SpaceSeparated(out) ==
    /\ Len(out) >= 2
    /\ out[1] = 32
    /\ out[2] # 32
    /\ out[Len(out)] # 32
    /\ \A i \in 1..(Len(out) - 1) : ~(out[i] = 32 /\ out[i + 1] = 32)

EndsToken(src) == src # <<>> /\ src[Len(src)] >= 128

\* No byte of the source is a space once its high bit is cleared.
NoSpaceByte(src) == \A i \in 1..Len(src) : src[i] % 128 # 32

C9_DriverFailure ==
    /\ engineRet.kind = "err" =>
          /\ result = [kind |-> "err", ok |-> None, err |-> engineRet.err]
          /\ qedLookup = 0
    /\ result.kind = "err" =>
          /\ engineRet.kind = "err"
          /\ result.err = engineRet.err

\* C9 witness: after two trees were built, verify_one failed with d2 and
\* the driver returned Err(d2).
C9_Witness ==
    /\ pc = "done"
    /\ Len(trees) = 2
    /\ engineRet.err = {"d2"}
    /\ result.err = {"d2"}

\* A run that builds a first step without children, possibly again, then a
\* top step taking the first step's node as both children, and returns the
\* top step's node.
EndToEndRun ==
    /\ pc = "done"
    /\ engineRet.kind = "ok"
    /\ engineRet.ok = {last.ret}
    /\ \E first \in calls :
          /\ first.children = <<>>
          /\ last.children = <<first.ret, first.ret>>
          /\ calls = {first, [addr |-> last.addr, children |-> last.children,
                              ret |-> last.ret]}

\* C10 (end-to-end), as claimed: such a run ends with an array of length 2
\* and qed position 1.
C10_EndToEnd ==
    EndToEndRun =>
        /\ result.kind = "ok"
        /\ \A t \in result.ok : Len(t[1].trees) = 2 /\ t[2] = 1

\* A tree as a value: its address and the values of its children, without
\* the cached hash.
RECURSIVE TermOf(_)
TermOf(t) ==
    <<t.address, [i \in 1..Len(t.children) |-> TermOf(heap[t.children[i]])]>>

\* The cached digests of a tree's children, in order.
ChildDigests(t) == [i \in 1..Len(t.children) |-> heap[t.children[i]].hash]

\* C11 (digest/equality agreement): any two trees made by ProofTree::new
\* that are structurally equal have equal cached digests; two trees with the
\* same address and the same sequence of children's digests have equal
\* digests; and two trees are equal exactly when they are the same value
\* once the digests are left out.
C11_DigestAgreement ==
    \A a, b \in Handles :
        /\ TreeEq(heap[a], heap[b]) => heap[a].hash = heap[b].hash
        /\ (/\ heap[a].address = heap[b].address
            /\ ChildDigests(heap[a]) = ChildDigests(heap[b]))
              => heap[a].hash = heap[b].hash
        /\ TreeEq(heap[a], heap[b]) <=> TermOf(heap[a]) = TermOf(heap[b])

\* C11 witness: two different instances of structurally equal trees with a
\* child, carrying the same digest.
C11_Witness ==
    \E a, b \in Handles :
        /\ a # b
        /\ heap[a].children # <<>>
        /\ TreeEq(heap[a], heap[b])
        /\ heap[a].hash = heap[b].hash

\* The digest ProofTree::new gives the candidate of the latest build call.
CandidateDigest == sip'[HashInput(last'.addr, last'.children)]

\* C12 (collision aliasing): a build call is a dedup hit exactly when the
\* candidate's digest is a key of map; when that digest is the digest of a
\* stored tree that is structurally different from the candidate, the call
\* returns that stored tree and leaves map, trees and exprs as they were.
C12_CollisionAliasing ==
    [][IsBuildStep =>
         /\ ~last'.grew <=> CandidateDigest \in DOMAIN map
         /\ \A p \in 1..Len(trees) :
               (/\ heap[trees[p]].hash = CandidateDigest
                /\ ~SameArgs([addr |-> heap[trees[p]].address,
                              children |-> heap[trees[p]].children], last'))
                 => /\ last'.ret = trees[p]
                    /\ map' = map
                    /\ trees' = trees
                    /\ exprs' = exprs]_vars

\* C12 witness: the latest build call returned a stored tree that is
\* structurally different from the (statement, children) it was given.
C12_Witness ==
    /\ last.ret \in Handles
    /\ ~last.grew
    /\ ~SameArgs([addr |-> heap[last.ret].address,
                  children |-> heap[last.ret].children], last)
    /\ last.children # <<>>

\* C13 (lookup miss in the driver): when verify_one returned Ok with a tree
\* whose digest is not a key of the run's map, the driver panicked: it
\* returned neither Ok((array, qed)) nor Err(diagnostic).
C13_LookupMissFatal ==
    (/\ pc = "done"
     /\ engineRet.kind = "ok"
     /\ \A arc \in engineRet.ok : heap[arc].hash \notin DOMAIN map)
       => result = [kind |-> "panic", ok |-> None, err |-> None]

\* C13 witness: in a run whose array holds a tree, verify_one returned a
\* tree that no build call of this run returned, and the driver panicked.
C13_Witness ==
    /\ pc = "done"
    /\ Len(trees) >= 1
    /\ engineRet.kind = "ok"
    /\ \A arc \in engineRet.ok : arc \notin Built
    /\ result.kind = "panic"

\* C14 (maximal sharing): no two positions of trees hold structurally equal
\* trees, and two handles returned by build calls on this array are
\* structurally equal exactly when they are the same instance.
C14_MaximalSharing ==
    /\ \A p, q \in 1..Len(trees) :
          TreeEq(heap[trees[p]], heap[trees[q]]) => p = q
    /\ \A r1, r2 \in calls :
          TreeEq(heap[r1.ret], heap[r2.ret]) <=> r1.ret = r2.ret

\* C14 witness: an array of two trees, one of them with a child, on which
\* the latest build call was a dedup hit.
C14_Witness ==
    /\ Len(trees) = 2
    /\ heap[trees[2]].children # <<>>
    /\ ~last.grew
    /\ last.ret \in Handles

\* C15 (first rendering wins): a build call that inserts a tree appends the
\* transform of its own rendering source at that tree's position; a build
\* call that is a dedup hit leaves exprs as it was, whatever its rendering
\* source; and within a run no step changes a rendering already stored.
C15_FirstRenderingWins ==
    [][/\ IsBuildStep =>
            IF last'.grew
            THEN /\ exprs' = Append(exprs, RefRender(last'.expr))
                 /\ trees'[Len(exprs')] = last'.ret
            ELSE exprs' = exprs
       /\ runs' = runs =>
            /\ Len(exprs') >= Len(exprs)
            /\ \A p \in 1..Len(exprs) : exprs'[p] = exprs[p]]_vars

\* C15 witness: the latest build call was a dedup hit whose rendering source
\* differs from, and renders differently from, the source the stored tree
\* was inserted with; the stored rendering is still that of the first one.
C15_Witness ==
    /\ last.ret \in Handles
    /\ ~last.grew
    /\ last.expr # srcs[PosOf(last.ret)]
    /\ exprs[PosOf(last.ret)] = RefRender(srcs[PosOf(last.ret)])
    /\ exprs[PosOf(last.ret)] # RefRender(last.expr)

\* Every child handle given to a build call of this run is a tree of this
\* run's array (so it was returned by an earlier build call on it).
ChildrenFromArray ==
    \A r \in calls :
        \A i \in 1..Len(r.children) :
            \E q \in 1..Len(trees) : trees[q] = r.children[i]

\* C16 (child closure and topological order): if every child handle given
\* to build was returned by an earlier build call on the same array, every
\* child of the tree at a position is the very tree at a smaller position.
C16_ChildClosure ==
    ChildrenFromArray =>
        \A p \in 1..Len(trees) :
            \A i \in 1..Len(heap[trees[p]].children) :
                \E q \in 1..(p - 1) : trees[q] = heap[trees[p]].children[i]

\* C16 witness: an array of three trees, the third with the second as its
\* child and the second with the first as its child.
C16_Witness ==
    /\ ChildrenFromArray
    /\ Len(trees) = 3
    /\ heap[trees[3]].children = <<trees[2]>>
    /\ heap[trees[2]].children = <<trees[1]>>

\* The run before this one and this run both returned Ok, after the same
\* build calls in the same order, the verifier returning the result of the
\* same call.
SameRun(pr) ==
    /\ pc = "done"
    /\ result.kind = "ok"
    /\ pr.result.kind = "ok"
    /\ pr.script = twin.script
    /\ pr.choice = twin.choice

\* C17 (run isolation and determinism): a run starts from the empty array,
\* whatever the run before left; no tree of this run's array is a tree of
\* the array of the run before; and two runs of the same build calls end
\* with arrays of the same length, structurally equal trees at the same
\* positions, the same renderings, and the same qed position.
C17_RunDeterminism ==
    /\ (pc = "verify" /\ twin.script = <<>>) => Arr = DefaultArr
    /\ \A pr \in twin.prev :
          /\ \A p \in 1..Len(trees), q \in 1..Len(pr.arr.trees) :
                trees[p] # pr.arr.trees[q]
          /\ SameRun(pr) =>
                /\ Len(trees) = Len(pr.arr.trees)
                /\ \A p \in 1..Len(trees) :
                      /\ p <= Len(pr.arr.trees)
                      /\ TreeEq(heap[trees[p]], heap[pr.arr.trees[p]])
                /\ exprs = pr.arr.exprs
                /\ \A t \in result.ok, u \in pr.result.ok :
                      t[1] = Arr /\ u[1] = pr.arr /\ t[2] = u[2]

\* C17 witness: a second run of two build calls, the second a dedup hit in
\* both runs, ended like the first with one tree in the array.
C17_Witness ==
    \E pr \in twin.prev :
        /\ SameRun(pr)
        /\ Len(twin.script) = 2
        /\ ~last.grew
        /\ Len(pr.arr.trees) = 1
        /\ Len(trees) = 1

====
